---- MODULE Spec2Model ----
(***************************************************************************)
(* Model of the task-manager-api real-time layer (socketHandlers.js) and   *)
(* of its token service / authorization middleware (utils/auth.ts).        *)
(*                                                                         *)
(* An async handler is split at its `await`s: the persistence call is      *)
(* executed when it is issued, and the code after the `await` runs in a    *)
(* later step, so other handlers interleave between the two.               *)
(***************************************************************************)
EXTENDS Integers, Sequences, FiniteSets

(***************************************************************************)
(* Bounds                                                                  *)
(***************************************************************************)
MaxEvents == 3       \* client events and REST calls in one run
MaxInFlight == 2     \* event handlers suspended at an await at the same time
MaxDbFailures == 1   \* persistence calls that throw in one run
MaxRequests == 4     \* REST calls in one run of the token service
MaxNow == 5          \* ticks the clock advances in one run

Users == {1, 2, 3}   \* ids of the rows of the users table
Inactive == 3        \* the deactivated user
NoUser == 0          \* a user id with no row
Conns == {1, 2}      \* connections, opened in this order
ConvId == 1          \* the conversation, the project and the task of the model
ProjectId == 1
TaskId == 1

VARIABLES
    now,              \* Date.now(), in ticks of half a second
    dbUser,           \* users table: id -> [exists, isActive, isOnline, seenBy]
    dbParticipants,   \* conversation_participants rows of ConvId: set of user ids
    dbProject,        \* the project row: [ownerId, isPublic]
    dbTask,           \* the task row: [assignedToId, createdById, watchers]
    dbMessages,       \* messages table, in insertion order
    dbNotifications,  \* notifications table: set of [userId, messageId]
    dbFailures,       \* persistence calls that have thrown so far
    conn,             \* socket: [status, token, userId, res]
    rooms,            \* the adapter: connection -> set of rooms joined
    handlers,         \* event handlers suspended at an await
    msgs,             \* new_message events each client received, in order
    evts,             \* the other events each client received
    nEvents,          \* client events and REST calls so far
    sends,            \* history: what became of each send_message
    joinLog,          \* history: the join requests that were answered, and how
    leaveAsked,       \* history: rooms each connection asked to leave and has not rejoined
    typingLog,        \* history: the typing events and whether their emitter had joined
    refreshTokensStore, \* the in-memory refresh token registry
    pending,          \* REST handlers suspended at a user lookup
    revoked,          \* history: the refresh tokens presented to logout so far
    authLog           \* history: outcomes of the REST operations

sockVars == <<dbParticipants, dbProject, dbTask, dbMessages, dbNotifications,
              dbFailures, conn, rooms, handlers, msgs, evts, nEvents,
              sends, joinLog, leaveAsked, typingLog>>
authVars == <<now, refreshTokensStore, pending, revoked, authLog>>
vars == <<dbUser, sockVars, authVars>>

(***************************************************************************)
(* Tokens.  A JWT is determined by its secret, its payload {userId} and    *)
(* its iat/exp claims, which jsonwebtoken counts in whole seconds.         *)
(***************************************************************************)
TicksPerSec == 2               \* Date.now() resolves below the second
ACCESS_TOKEN_EXPIRATION == 1   \* seconds
REFRESH_TOKEN_EXPIRATION == 2  \* seconds

NowSec(t) == t \div TicksPerSec

NoToken == [typ |-> "none", userId |-> NoUser, iat |-> 0, exp |-> 0]
Garbage == [typ |-> "garbage", userId |-> NoUser, iat |-> 0, exp |-> 0]

\* jwt.sign({ userId }, secret, { expiresIn })
JwtSign(secret, userId, t, expiresIn) ==
    [typ |-> secret, userId |-> userId, iat |-> NowSec(t), exp |-> NowSec(t) + expiresIn]

\* Mutant: jwt.verify with ignoreExpiration.
JwtVerifyIgnoreExpiration(token, secret, t) == token.typ = secret

\* jwt.verify(token, secret): the signature, then exp against the clock
JwtVerify(token, secret, t) ==
    /\ token.typ = secret
    /\ NowSec(t) < token.exp

\* A configured duration string: a numeral (nan when parseInt finds none,
\* written without leading zeros otherwise) followed by one unit character.
Duration(value, unit) == [nan |-> FALSE, value |-> value, unit |-> unit]
NotANumber(unit) == [nan |-> TRUE, value |-> 0, unit |-> unit]
Seconds(n) == Duration(n, "s")

parseExpiryToMilliseconds(expiryString) ==
    IF expiryString.nan THEN 0
    ELSE CASE expiryString.unit = "s" -> expiryString.value * 1000
           [] expiryString.unit = "m" -> expiryString.value * 60 * 1000
           [] expiryString.unit = "h" -> expiryString.value * 60 * 60 * 1000
           [] expiryString.unit = "d" -> expiryString.value * 24 * 60 * 60 * 1000
           [] OTHER -> 0

\* ['0s', '0m', '0h', '0d'].includes(rawExpiryString.toLowerCase())
DeliberateZero(raw) ==
    ~raw.nan /\ raw.value = 0 /\ raw.unit \in {"s", "m", "h", "d", "S", "M", "H", "D"}

\* Mutant: no fallback for a string that does not parse.
AccessExpiresInNoDefault(raw) == parseExpiryToMilliseconds(raw) \div 1000

\* expiresInSeconds of signAccessToken: 15 minutes for a string that does
\* not parse, the parsed duration otherwise.
AccessExpiresIn(raw) ==
    IF parseExpiryToMilliseconds(raw) = 0 /\ ~DeliberateZero(raw)
    THEN 15 * 60
    ELSE parseExpiryToMilliseconds(raw) \div 1000

signAccessTokenWith(raw, userId, t) == JwtSign("access", userId, t, AccessExpiresIn(raw))

signAccessToken(userId, t) == signAccessTokenWith(Seconds(ACCESS_TOKEN_EXPIRATION), userId, t)

\* The credentials a client may present at the handshake.
HandshakeTokens ==
    {NoToken, Garbage}
      \cup {JwtSign("access", u, 0, 1) : u \in Users \cup {NoUser}}
      \cup {[typ |-> "access", userId |-> 1, iat |-> 0, exp |-> 0]}   \* expired

(***************************************************************************)
(* Rooms and events                                                        *)
(***************************************************************************)
\* Mutant: one room for every principal.
UserRoomShared(u) == <<"user", NoUser>>

UserRoom(u) == <<"user", u>>

ConvRoom(id) == <<"conversation", id>>
ProjectRoom(id) == <<"project", id>>
TaskRoom(id) == <<"task", id>>
JoinableRooms == {ConvRoom(ConvId), ProjectRoom(ProjectId), TaskRoom(TaskId)}

\* A server-to-client event: its name, its message text, the id it is about,
\* the principal it names, and (history) the client event that caused it.
Event(ev, msg, id, by, seq) == [ev |-> ev, msg |-> msg, id |-> id, by |-> by, seq |-> seq]

Open(c) == conn[c].status = "open"

\* The connected sockets of a room: the adapter's members that the
\* namespace still knows.
RoomSockets(r) == {c \in Conns : Open(c) /\ r \in rooms[c]}

\* A persistence call either returns or throws.
DbOutcomes == IF dbFailures < MaxDbFailures THEN {TRUE, FALSE} ELSE {TRUE}
CountFailure(ok) == dbFailures' = IF ok THEN dbFailures ELSE dbFailures + 1

Handler(kind, c, pc, arg, seq, res) ==
    [kind |-> kind, conn |-> c, pc |-> pc, arg |-> arg, seq |-> seq, res |-> res,
     mid |-> 0, todo |-> <<>>, had |-> FALSE, claimed |-> NoUser]

\* Mutant: the identity is read from the payload.
EmitterFromPayload(c, claimed) == claimed

\* socket.userId, the identity a handler stamps on what it writes and emits;
\* `claimed` is the identity field the client put in the event's payload.
Emitter(c, claimed) == conn[c].userId

CanSuspend == Cardinality(handlers) < MaxInFlight

\* socket.emit(ev, ...): to this client, if it is still connected
SocketEmit(c, e) == [evts EXCEPT ![c] = IF Open(c) THEN @ \cup {e} ELSE @]
\* io.to(room).emit(ev, ...): to every connected socket of the room
RoomEmit(r, e) == [c \in Conns |-> IF c \in RoomSockets(r) THEN evts[c] \cup {e} ELSE evts[c]]
\* socket.to(room).emit(ev, ...): the same, except this socket
SocketToRoomEmit(s, r, e) ==
    [c \in Conns |-> IF c \in RoomSockets(r) \ {s} THEN evts[c] \cup {e} ELSE evts[c]]
\* socket.broadcast.emit(ev, ...): to every connected socket except this one
BroadcastEmit(s, e) ==
    [c \in Conns |-> IF Open(c) /\ c # s THEN evts[c] \cup {e} ELSE evts[c]]

(***************************************************************************)
(* Initial state: the server has started, nobody is connected.             *)
(***************************************************************************)
FreshConn == [status |-> "new", token |-> NoToken, userId |-> NoUser, res |-> "none"]

\* The task's assignee in the public scenario is `assignee`; in the private
\* one the task has no assignee and user 2 watches it.
InitWith(assignee) ==
    /\ now = 0
    /\ dbUser = [u \in Users |-> [exists |-> TRUE, isActive |-> (u # Inactive),
                                  isOnline |-> FALSE, seenBy |-> <<"none", 0>>]]
    /\ dbParticipants = {1, 2}
    /\ \E p \in BOOLEAN :
         /\ dbProject = [ownerId |-> 1, isPublic |-> p]
         /\ dbTask = [assignedToId |-> IF p THEN assignee ELSE NoUser, createdById |-> 1,
                      watchers |-> IF p THEN {} ELSE {2}]
    /\ dbMessages = <<>>
    /\ dbNotifications = {}
    /\ dbFailures = 0
    /\ conn = [c \in Conns |-> FreshConn]
    /\ rooms = [c \in Conns |-> {}]
    /\ handlers = {}
    /\ msgs = [c \in Conns |-> <<>>]
    /\ evts = [c \in Conns |-> {}]
    /\ nEvents = 0
    /\ sends = <<>>
    /\ joinLog = {}
    /\ leaveAsked = [c \in Conns |-> {}]
    /\ typingLog = {}
    /\ refreshTokensStore = {}
    /\ pending = {}
    /\ revoked = {}
    /\ authLog = {}

Init == InitWith(NoUser)

(***************************************************************************)
(* Handshake: the io.use middleware, then the connection handler.          *)
(***************************************************************************)
Reject(c, tok, reason) ==
    [conn EXCEPT ![c] = [status |-> "rejected", token |-> NoToken, userId |-> NoUser,
                         res |-> reason]]

\* Mutant: the isActive test of the middleware is missing.
FindUserIgnoringActive(id) ==
    IF id \in Users /\ dbUser[id].exists THEN "active" ELSE "null"

\* prisma.user.findUnique({ where: { id } })
FindUser(id) ==
    IF id \in Users /\ dbUser[id].exists
    THEN IF dbUser[id].isActive THEN "active" ELSE "inactive"
    ELSE "null"

\* The token checks of the middleware, up to its first await.
Connect(c, tok) ==
    /\ conn[c].status = "new"
    /\ \A d \in Conns : d < c => conn[d].status # "new"
    /\ IF tok = NoToken
       THEN /\ conn' = Reject(c, tok, "No token provided")
            /\ UNCHANGED dbFailures
       ELSE IF ~JwtVerify(tok, "access", now)
       THEN /\ conn' = Reject(c, tok, "Invalid token")
            /\ UNCHANGED dbFailures
       ELSE \E ok \in DbOutcomes :
            /\ conn' = [conn EXCEPT ![c] =
                   [status |-> "lookup", token |-> tok, userId |-> NoUser,
                    res |-> IF ok THEN FindUser(tok.userId) ELSE "threw"]]
            /\ CountFailure(ok)
    /\ UNCHANGED <<dbUser, dbParticipants, dbProject, dbTask, dbMessages, dbNotifications,
                   rooms, handlers, msgs, evts, nEvents, sends, joinLog,
                   leaveAsked, typingLog, authVars>>

\* After findUnique: the user checks, socket.userId, and the presence update.
HandshakeLookup(c) ==
    /\ conn[c].status = "lookup"
    /\ LET tok == conn[c].token
           u == tok.userId
       IN IF conn[c].res = "threw"
          THEN /\ conn' = Reject(c, tok, "Invalid token")
               /\ UNCHANGED <<dbUser, dbFailures>>
          ELSE IF conn[c].res # "active"
          THEN /\ conn' = Reject(c, tok, "Invalid user")
               /\ UNCHANGED <<dbUser, dbFailures>>
          ELSE \E ok \in DbOutcomes :
               LET done == ok /\ dbUser[u].exists
               IN /\ conn' = [conn EXCEPT ![c] =
                        [status |-> "update", token |-> tok, userId |-> u,
                         res |-> IF done THEN "ok" ELSE "threw"]]
                  /\ dbUser' = IF done
                               THEN [dbUser EXCEPT ![u].isOnline = TRUE,
                                                   ![u].seenBy = <<"handshake", c>>]
                               ELSE dbUser
                  /\ CountFailure(ok)
    /\ UNCHANGED <<dbParticipants, dbProject, dbTask, dbMessages, dbNotifications,
                   rooms, handlers, msgs, evts, nEvents, sends, joinLog,
                   leaveAsked, typingLog, authVars>>

\* After the update: next(), and the connection handler joins the personal
\* room and registers the event handlers.
HandshakeUpdate(c) ==
    /\ conn[c].status = "update"
    /\ IF conn[c].res = "threw"
       THEN /\ conn' = Reject(c, conn[c].token, "Invalid token")
            /\ UNCHANGED rooms
       ELSE /\ conn' = [conn EXCEPT ![c].status = "open", ![c].res = "none"]
            /\ rooms' = [rooms EXCEPT ![c] = {UserRoom(conn[c].userId)}]
    /\ UNCHANGED <<dbUser, dbParticipants, dbProject, dbTask, dbMessages, dbNotifications,
                   dbFailures, handlers, msgs, evts, nEvents, sends, joinLog,
                   leaveAsked, typingLog, authVars>>

(***************************************************************************)
(* Disconnect: the transport closes, the socket leaves its rooms, and the  *)
(* disconnect handler runs.                                                *)
(***************************************************************************)
NoRoom == <<"none", 0>>

\* Mutant: the update stamps lastSeen and leaves isOnline as it was.
PresenceUpdateLastSeenOnly(u, ok, online, by) ==
    IF ok /\ u \in Users /\ dbUser[u].exists
    THEN [dbUser EXCEPT ![u].seenBy = by]
    ELSE dbUser

\* prisma.user.update of the presence columns: throws when the row is gone.
PresenceUpdate(u, ok, online, by) ==
    IF ok /\ u \in Users /\ dbUser[u].exists
    THEN [dbUser EXCEPT ![u].isOnline = online, ![u].seenBy = by]
    ELSE dbUser

PresenceUpdated(u, ok) == ok /\ u \in Users /\ dbUser[u].exists

Disconnect(c) ==
    /\ Open(c)
    /\ CanSuspend
    /\ conn' = [conn EXCEPT ![c].status = "closed"]
    /\ rooms' = [rooms EXCEPT ![c] = {}]
    /\ \E ok \in DbOutcomes :
         LET u == conn[c].userId
         IN /\ dbUser' = PresenceUpdate(u, ok, FALSE, <<"disconnect", c>>)
            /\ handlers' = handlers \cup
                 {Handler("disconnect", c, "updated", NoRoom, 0,
                          IF PresenceUpdated(u, ok) THEN "ok" ELSE "threw")}
            /\ CountFailure(ok)
    /\ UNCHANGED <<dbParticipants, dbProject, dbTask, dbMessages, dbNotifications,
                   msgs, evts, nEvents, sends, joinLog, leaveAsked, typingLog,
                   authVars>>

\* After the presence update: socketConnection.deleteMany.
DisconnectUpdated(h) ==
    /\ h \in handlers /\ h.kind = "disconnect" /\ h.pc = "updated"
    /\ IF h.res = "threw"
       THEN /\ handlers' = handlers \ {h}
            /\ UNCHANGED dbFailures
       ELSE \E ok \in DbOutcomes :
            /\ handlers' = (handlers \ {h}) \cup
                 {[h EXCEPT !.pc = "deleted", !.res = IF ok THEN "ok" ELSE "threw"]}
            /\ CountFailure(ok)
    /\ UNCHANGED <<dbUser, dbParticipants, dbProject, dbTask, dbMessages, dbNotifications,
                   conn, rooms, msgs, evts, nEvents, sends, joinLog, leaveAsked,
                   typingLog, authVars>>

\* After deleteMany: the offline broadcast.
DisconnectDeleted(h) ==
    /\ h \in handlers /\ h.kind = "disconnect" /\ h.pc = "deleted"
    /\ handlers' = handlers \ {h}
    /\ evts' = IF h.res = "threw"
               THEN evts
               ELSE BroadcastEmit(h.conn, Event("user_presence_updated", "offline", 0,
                                                conn[h.conn].userId, 0))
    /\ UNCHANGED <<dbUser, dbParticipants, dbProject, dbTask, dbMessages, dbNotifications,
                   dbFailures, conn, rooms, msgs, nEvents, sends, joinLog,
                   leaveAsked, typingLog, authVars>>

(***************************************************************************)
(* task_update                                                             *)
(***************************************************************************)
\* Mutant: the lookup of join_task in place of the one of task_update.
TaskEditAccessWatchers(u, id) ==
    id = TaskId /\ (dbTask.assignedToId = u \/ dbTask.createdById = u \/ u \in dbTask.watchers)

\* prisma.task.findFirst({ where: { id, OR: [assignee, creator] } })
TaskEditAccess(u, id) ==
    id = TaskId /\ (dbTask.assignedToId = u \/ dbTask.createdById = u)

TaskUpdated(u) == Event("task_updated", "", TaskId, u, 0)

\* The event arrives and the handler issues its findFirst.
TaskUpdateWith(c, claimed) ==
    /\ Open(c)
    /\ nEvents < MaxEvents
    /\ CanSuspend
    /\ nEvents' = nEvents + 1
    /\ \E ok \in DbOutcomes :
         /\ handlers' = handlers \cup
              {[Handler("task_update", c, "checked", TaskRoom(TaskId), 0,
                        IF ~ok THEN "threw"
                        ELSE IF TaskEditAccess(conn[c].userId, TaskId) THEN "found"
                        ELSE "null")
                  EXCEPT !.claimed = claimed]}
         /\ CountFailure(ok)
    /\ UNCHANGED <<dbUser, dbParticipants, dbProject, dbTask, dbMessages, dbNotifications,
                   conn, rooms, msgs, evts, sends, joinLog, leaveAsked, typingLog,
                   authVars>>

\* A task_update whose payload carries no identity field.
TaskUpdate(c) == TaskUpdateWith(c, NoUser)

\* After findFirst: the broadcast to the task room, nothing, or the catch block.
TaskUpdateChecked(h) ==
    /\ h \in handlers /\ h.kind = "task_update"
    /\ handlers' = handlers \ {h}
    /\ evts' = IF h.res = "found" THEN RoomEmit(h.arg, TaskUpdated(Emitter(h.conn, h.claimed)))
               ELSE IF h.res = "threw"
               THEN SocketEmit(h.conn, Event("error", "Failed to update task", 0, 0, 0))
               ELSE evts
    /\ UNCHANGED <<dbUser, dbParticipants, dbProject, dbTask, dbMessages, dbNotifications,
                   dbFailures, conn, rooms, msgs, nEvents, sends, joinLog,
                   leaveAsked, typingLog, authVars>>

(***************************************************************************)
(* update_presence                                                         *)
(***************************************************************************)
PresenceStatuses == {"online", "offline", "away"}
PresenceEvent(status, u) == Event("user_presence_updated", status, 0, u, 0)

\* The handler up to its await: prisma.user.update.
UpdatePresenceWith(c, status, claimed) ==
    /\ Open(c)
    /\ nEvents < MaxEvents
    /\ CanSuspend
    /\ nEvents' = nEvents + 1
    /\ \E ok \in DbOutcomes :
         LET u == conn[c].userId
         IN /\ dbUser' = PresenceUpdate(u, ok, status = "online", <<"update_presence", c>>)
            /\ handlers' = handlers \cup
                 {[Handler("update_presence", c, "updated", <<status, 0>>, 0,
                           IF PresenceUpdated(u, ok) THEN "ok" ELSE "threw")
                     EXCEPT !.claimed = claimed]}
            /\ CountFailure(ok)
    /\ UNCHANGED <<dbParticipants, dbProject, dbTask, dbMessages, dbNotifications,
                   conn, rooms, msgs, evts, sends, joinLog, leaveAsked, typingLog,
                   authVars>>

\* An update_presence whose payload is the bare status.
UpdatePresence(c, status) == UpdatePresenceWith(c, status, NoUser)

\* After the update: the broadcast, or console.error.
PresenceBroadcast(h) ==
    /\ h \in handlers /\ h.kind = "update_presence"
    /\ handlers' = handlers \ {h}
    /\ evts' = IF h.res = "threw"
               THEN evts
               ELSE BroadcastEmit(h.conn, PresenceEvent(h.arg[1], Emitter(h.conn, h.claimed)))
    /\ UNCHANGED <<dbUser, dbParticipants, dbProject, dbTask, dbMessages, dbNotifications,
                   dbFailures, conn, rooms, msgs, nEvents, sends, joinLog,
                   leaveAsked, typingLog, authVars>>

(***************************************************************************)
(* join_project / join_task / join_conversation                            *)
(***************************************************************************)
\* prisma.project.findFirst({ where: { id, OR: [{ ownerId }, { isPublic: true }] } })
ProjectAccess(u, id) ==
    id = ProjectId /\ (dbProject.ownerId = u \/ dbProject.isPublic)

\* Mutant: the task lookup without its OR clause.
TaskAccessAnyone(u, id) == id = TaskId

\* prisma.task.findFirst({ where: { id, OR: [assignee, creator, watcher] } })
TaskAccess(u, id) ==
    id = TaskId /\ (dbTask.assignedToId = u \/ dbTask.createdById = u \/ u \in dbTask.watchers)

\* Mutant: the participant lookup without its userId.
FindParticipantAnyone(u, id) == id = ConvId

\* prisma.conversationParticipant.findFirst({ where: { conversationId, userId } })
FindParticipant(u, id) == id = ConvId /\ u \in dbParticipants

RoomAccess(u, r) ==
    CASE r[1] = "project" -> ProjectAccess(u, r[2])
      [] r[1] = "task" -> TaskAccess(u, r[2])
      [] r[1] = "conversation" -> FindParticipant(u, r[2])
      [] OTHER -> FALSE

\* The status the specification asks of a principal for a room.
HasStatus(u, r) ==
    CASE r[1] = "project" -> dbProject.ownerId = u
      [] r[1] = "task" -> dbTask.assignedToId = u \/ dbTask.createdById = u
                             \/ u \in dbTask.watchers
      [] r[1] = "conversation" -> u \in dbParticipants
      [] OTHER -> FALSE

\* The event arrives and the handler issues its findFirst.
JoinRequest(c, r) ==
    /\ Open(c)
    /\ nEvents < MaxEvents
    /\ CanSuspend
    /\ nEvents' = nEvents + 1
    /\ \E ok \in DbOutcomes :
         /\ handlers' = handlers \cup
              {[Handler("join", c, "checked", r, 0,
                        IF ~ok THEN "threw"
                        ELSE IF RoomAccess(conn[c].userId, r) THEN "found" ELSE "null")
                EXCEPT !.had = HasStatus(conn[c].userId, r)]}
         /\ CountFailure(ok)
    /\ UNCHANGED <<dbUser, dbParticipants, dbProject, dbTask, dbMessages, dbNotifications,
                   conn, rooms, msgs, evts, sends, joinLog, leaveAsked, typingLog,
                   authVars>>

JoinedEvent(r) ==
    CASE r[1] = "project" -> "joined_project"
      [] r[1] = "task" -> "joined_task"
      [] OTHER -> "joined_conversation"
JoinFailedMessage(r) ==
    CASE r[1] = "project" -> "Failed to join project"
      [] r[1] = "task" -> "Failed to join task"
      [] OTHER -> "Failed to join conversation"

\* After findFirst: socket.join and the acknowledgement, or the catch block.
JoinChecked(h) ==
    /\ h \in handlers /\ h.kind = "join" /\ h.pc = "checked"
    /\ handlers' = handlers \ {h}
    /\ LET c == h.conn
           r == h.arg
           answer == CASE h.res = "found" -> "joined"
                       [] h.res = "threw" -> "error"
                       [] OTHER -> "silent"
       IN /\ rooms' = IF h.res = "found" THEN [rooms EXCEPT ![c] = @ \cup {r}] ELSE rooms
          /\ evts' = CASE h.res = "found" ->
                            SocketEmit(c, Event(JoinedEvent(r), "", r[2], 0, 0))
                       [] h.res = "threw" ->
                            SocketEmit(c, Event("error", JoinFailedMessage(r), 0, 0, 0))
                       [] OTHER -> evts
          /\ joinLog' = joinLog \cup
               {[conn |-> c, room |-> r, status |-> h.had, answer |-> answer]}
          /\ leaveAsked' = IF h.res = "found" THEN [leaveAsked EXCEPT ![c] = @ \ {r}]
                           ELSE leaveAsked
    /\ UNCHANGED <<dbUser, dbParticipants, dbProject, dbTask, dbMessages, dbNotifications,
                   dbFailures, conn, msgs, nEvents, sends, typingLog, authVars>>

(***************************************************************************)
(* leave_conversation: documented (API_DOCUMENTATION.md, app.ts), but the  *)
(* connection handler registers no listener for it: the event is dropped.  *)
(***************************************************************************)
LeaveRequest(c, r) ==
    /\ Open(c)
    /\ nEvents < MaxEvents
    /\ nEvents' = nEvents + 1
    /\ leaveAsked' = [leaveAsked EXCEPT ![c] = @ \cup {r}]
    /\ UNCHANGED <<dbUser, dbParticipants, dbProject, dbTask, dbMessages, dbNotifications,
                   dbFailures, conn, rooms, handlers, msgs, evts, sends, joinLog,
                   typingLog, authVars>>

(***************************************************************************)
(* typing_start / typing_stop: synchronous, no check.                      *)
(***************************************************************************)
TypingEvent(kind) == IF kind = "typing_start" THEN "user_typing" ELSE "user_stopped_typing"

TypingWith(c, kind, claimed) ==
    /\ Open(c)
    /\ nEvents < MaxEvents
    /\ nEvents' = nEvents + 1
    /\ evts' = SocketToRoomEmit(c, ConvRoom(ConvId),
                                Event(TypingEvent(kind), "", ConvId, Emitter(c, claimed), 0))
    /\ typingLog' = typingLog \cup
         {[conn |-> c, kind |-> kind, member |-> ConvRoom(ConvId) \in rooms[c],
           reached |-> RoomSockets(ConvRoom(ConvId)) \ {c}]}
    /\ UNCHANGED <<dbUser, dbParticipants, dbProject, dbTask, dbMessages, dbNotifications,
                   dbFailures, conn, rooms, handlers, msgs, sends, joinLog,
                   leaveAsked, authVars>>

\* A typing event whose payload carries no identity field.
Typing(c, kind) == TypingWith(c, kind, NoUser)

(***************************************************************************)
(* REST: DELETE /conversations/:id/leave                                   *)
(***************************************************************************)
leaveConversation(u) ==
    /\ nEvents < MaxEvents
    /\ dbUser[u].exists /\ dbUser[u].isActive
    /\ u \in dbParticipants
    /\ nEvents' = nEvents + 1
    /\ dbParticipants' = dbParticipants \ {u}
    /\ UNCHANGED <<dbUser, dbProject, dbTask, dbMessages, dbNotifications, dbFailures, conn,
                   rooms, handlers, msgs, evts, sends, joinLog, leaveAsked,
                   typingLog, authVars>>

(***************************************************************************)
(* send_message                                                            *)
(***************************************************************************)
SendFailed == "Failed to send message"
NotAuthorized == "Not authorized to send message"

SetSend(seq, status) == [sends EXCEPT ![seq].status = status]

\* The orders in which findMany may return a set of rows.
RECURSIVE Orders(_)
Orders(S) ==
    IF S = {} THEN {<<>>}
    ELSE UNION {{<<x>> \o t : t \in Orders(S \ {x})} : x \in S}

\* The event arrives and the handler issues the participant lookup.
SendRequestWith(c, claimed) ==
    /\ Open(c)
    /\ nEvents < MaxEvents
    /\ CanSuspend
    /\ nEvents' = nEvents + 1
    /\ sends' = Append(sends, [conn |-> c, user |-> conn[c].userId, status |-> "checking",
                               mid |-> 0, members |-> {},
                               others |-> dbParticipants \ {conn[c].userId},
                               participant |-> conn[c].userId \in dbParticipants,
                               joined |-> ConvRoom(ConvId) \in rooms[c]])
    /\ \E ok \in DbOutcomes :
         /\ handlers' = handlers \cup
              {[Handler("send", c, "checked", ConvRoom(ConvId), Len(sends) + 1,
                        IF ~ok THEN "threw"
                        ELSE IF FindParticipant(conn[c].userId, ConvId) THEN "found"
                        ELSE "null")
                  EXCEPT !.claimed = claimed]}
         /\ CountFailure(ok)
    /\ UNCHANGED <<dbUser, dbParticipants, dbProject, dbTask, dbMessages, dbNotifications,
                   conn, rooms, msgs, evts, joinLog, leaveAsked, typingLog, authVars>>

\* A send_message whose payload carries no identity field.
SendRequest(c) == SendRequestWith(c, NoUser)

\* After the participant lookup: the error paths, or prisma.message.create.
SendChecked(h) ==
    /\ h \in handlers /\ h.kind = "send" /\ h.pc = "checked"
    /\ LET c == h.conn
       IN CASE h.res = "threw" ->
                 /\ handlers' = handlers \ {h}
                 /\ evts' = SocketEmit(c, Event("error", SendFailed, 0, 0, h.seq))
                 /\ sends' = SetSend(h.seq, "failed")
                 /\ UNCHANGED <<dbMessages, dbFailures>>
            [] h.res = "null" ->
                 /\ handlers' = handlers \ {h}
                 /\ evts' = SocketEmit(c, Event("error", NotAuthorized, 0, 0, h.seq))
                 /\ sends' = SetSend(h.seq, "denied")
                 /\ UNCHANGED <<dbMessages, dbFailures>>
            [] OTHER ->
                 \E ok \in DbOutcomes :
                   LET id == Len(dbMessages) + 1
                   IN /\ dbMessages' = IF ok
                                       THEN Append(dbMessages,
                                                   [id |-> id, conversationId |-> ConvId,
                                                    senderId |-> Emitter(c, h.claimed),
                                                    content |-> h.seq])
                                       ELSE dbMessages
                      /\ handlers' = (handlers \ {h}) \cup
                           {[h EXCEPT !.pc = "created", !.mid = IF ok THEN id ELSE 0,
                                      !.res = IF ok THEN "ok" ELSE "threw"]}
                      /\ CountFailure(ok)
                      /\ UNCHANGED <<evts, sends>>
    /\ UNCHANGED <<dbUser, dbParticipants, dbProject, dbTask, dbNotifications, conn, rooms,
                   msgs, nEvents, joinLog, leaveAsked, typingLog, authVars>>

\* Mutant: socket.to(...) in place of io.to(...): the sender's socket is skipped.
BroadcastMessageToOthers(h) ==
    [c \in Conns |-> IF c \in RoomSockets(h.arg) \ {h.conn}
                     THEN Append(msgs[c], h.mid) ELSE msgs[c]]

\* Mutant: the event overtakes the ones already queued for the connection.
BroadcastMessageAtFront(h) ==
    [c \in Conns |-> IF c \in RoomSockets(h.arg) THEN <<h.mid>> \o msgs[c] ELSE msgs[c]]

\* io.to(`conversation:${id}`).emit('new_message', message)
BroadcastMessage(h) ==
    [c \in Conns |-> IF c \in RoomSockets(h.arg) THEN Append(msgs[c], h.mid) ELSE msgs[c]]

\* After message.create: the broadcast, then findMany of the other participants.
SendCreated(h) ==
    /\ h \in handlers /\ h.kind = "send" /\ h.pc = "created"
    /\ IF h.res = "threw"
       THEN /\ handlers' = handlers \ {h}
            /\ evts' = SocketEmit(h.conn, Event("error", SendFailed, 0, 0, h.seq))
            /\ sends' = SetSend(h.seq, "failed")
            /\ UNCHANGED <<msgs, dbFailures>>
       ELSE /\ msgs' = BroadcastMessage(h)
            /\ \E ok \in DbOutcomes :
                 \E order \in Orders(dbParticipants \ {conn[h.conn].userId}) :
                   /\ handlers' = (handlers \ {h}) \cup
                        {[h EXCEPT !.pc = "listed", !.todo = IF ok THEN order ELSE <<>>,
                                   !.res = IF ok THEN "ok" ELSE "threw"]}
                   /\ sends' = [sends EXCEPT ![h.seq].status = "broadcast",
                                             ![h.seq].mid = h.mid,
                                             ![h.seq].members =
                                                 {c \in Conns : Open(c) /\ h.arg \in rooms[c]},
                                             ![h.seq].others =
                                                 dbParticipants \ {conn[h.conn].userId},
                                             ![h.seq].joined = @ \/ h.arg \in rooms[h.conn]]
                   /\ CountFailure(ok)
            /\ UNCHANGED evts
    /\ UNCHANGED <<dbUser, dbParticipants, dbProject, dbTask, dbMessages, dbNotifications,
                   conn, rooms, nEvents, joinLog, leaveAsked, typingLog, authVars>>

\* Mutant: the record is written only for a participant who is connected.
NotifyNextOnlineOnly(h, todo, ok) ==
    IF todo = <<>>
    THEN /\ handlers' = handlers \ {h}
         /\ sends' = SetSend(h.seq, "done")
         /\ UNCHANGED dbNotifications
    ELSE /\ handlers' = (handlers \ {h}) \cup
              {[h EXCEPT !.pc = "notified", !.todo = todo,
                         !.res = IF ok THEN "ok" ELSE "threw"]}
         /\ dbNotifications' = IF ok /\ RoomSockets(UserRoom(Head(todo))) # {}
                               THEN dbNotifications \cup
                                      {[userId |-> Head(todo), messageId |-> h.mid]}
                               ELSE dbNotifications
         /\ UNCHANGED sends

\* One turn of the notification loop: prisma.notification.create for the
\* head of `todo`; with nobody left the handler returns.
NotifyNext(h, todo, ok) ==
    IF todo = <<>>
    THEN /\ handlers' = handlers \ {h}
         /\ sends' = SetSend(h.seq, "done")
         /\ UNCHANGED dbNotifications
    ELSE /\ handlers' = (handlers \ {h}) \cup
              {[h EXCEPT !.pc = "notified", !.todo = todo,
                         !.res = IF ok THEN "ok" ELSE "threw"]}
         /\ dbNotifications' = IF ok
                               THEN dbNotifications \cup
                                      {[userId |-> Head(todo), messageId |-> h.mid]}
                               ELSE dbNotifications
         /\ UNCHANGED sends

\* After findMany: the first turn of the loop.
SendListed(h) ==
    /\ h \in handlers /\ h.kind = "send" /\ h.pc = "listed"
    /\ IF h.res = "threw"
       THEN /\ handlers' = handlers \ {h}
            /\ evts' = SocketEmit(h.conn, Event("error", SendFailed, 0, 0, h.seq))
            /\ sends' = SetSend(h.seq, "notifyFailed")
            /\ UNCHANGED <<dbNotifications, dbFailures>>
       ELSE /\ \E ok \in (IF h.todo = <<>> THEN {TRUE} ELSE DbOutcomes) :
                 /\ NotifyNext(h, h.todo, ok)
                 /\ CountFailure(ok)
            /\ UNCHANGED evts
    /\ UNCHANGED <<dbUser, dbParticipants, dbProject, dbTask, dbMessages, conn, rooms, msgs,
                   nEvents, joinLog, leaveAsked, typingLog, authVars>>

\* After notification.create: the push to the personal room, then the next turn.
SendNotified(h) ==
    /\ h \in handlers /\ h.kind = "send" /\ h.pc = "notified"
    /\ IF h.res = "threw"
       THEN /\ handlers' = handlers \ {h}
            /\ evts' = SocketEmit(h.conn, Event("error", SendFailed, 0, 0, h.seq))
            /\ sends' = SetSend(h.seq, "notifyFailed")
            /\ UNCHANGED <<dbNotifications, dbFailures>>
       ELSE /\ evts' = RoomEmit(UserRoom(Head(h.todo)),
                                Event("notification", "MESSAGE_RECEIVED", h.mid,
                                      Head(h.todo), h.seq))
            /\ \E ok \in (IF Tail(h.todo) = <<>> THEN {TRUE} ELSE DbOutcomes) :
                 /\ NotifyNext(h, Tail(h.todo), ok)
                 /\ CountFailure(ok)
    /\ UNCHANGED <<dbUser, dbParticipants, dbProject, dbTask, dbMessages, conn, rooms, msgs,
                   nEvents, joinLog, leaveAsked, typingLog, authVars>>

(***************************************************************************)
(* Notifications created over REST: POST /notifications/system and the     *)
(* mention notifications of POST /conversations/:id/messages.  Both write   *)
(* with prisma.notification.createMany; neither handler holds a reference  *)
(* to the socket server.  A REST handler in flight has conn 0 and carries  *)
(* the caller in its arg; a system notification has messageId 0.           *)
(***************************************************************************)
\* The userIds arrays an administrator posts.
TargetArrays == {<<2>>, <<1, 2>>}

\* The mentions arrays a sender posts.
MentionArrays == {<<>>, <<2>>, <<1, 2>>}

ActiveUsers == {u \in Users : dbUser[u].exists /\ dbUser[u].isActive}

\* prisma.notification.createMany for a system notification.
SystemCreateMany(ids, ok) ==
    /\ dbNotifications' = IF ok
                          THEN dbNotifications \cup
                                 {[userId |-> ids[i], messageId |-> 0] : i \in DOMAIN ids}
                          ELSE dbNotifications
    /\ CountFailure(ok)

\* POST /notifications/system: 403 unless the caller is an administrator;
\* targetUsers 'all' awaits findMany of the active users, an array goes
\* straight to createMany.
createSystemNotification(admin, all, ids) ==
    /\ nEvents < MaxEvents
    /\ CanSuspend
    /\ nEvents' = nEvents + 1
    /\ IF ~admin
       THEN UNCHANGED <<handlers, dbNotifications, dbFailures>>
       ELSE IF all
       THEN /\ \E ok \in DbOutcomes : \E order \in Orders(ActiveUsers) :
                 /\ handlers' = handlers \cup
                      {[Handler("system", 0, "listed", UserRoom(NoUser), nEvents + 1,
                                IF ok THEN "ok" ELSE "threw")
                          EXCEPT !.todo = IF ok THEN order ELSE <<>>]}
                 /\ CountFailure(ok)
            /\ UNCHANGED dbNotifications
       ELSE /\ \E ok \in DbOutcomes : SystemCreateMany(ids, ok)
            /\ UNCHANGED handlers
    /\ UNCHANGED <<dbUser, dbParticipants, dbProject, dbTask, dbMessages, conn, rooms, msgs,
                   evts, sends, joinLog, leaveAsked, typingLog, authVars>>

\* After findMany: createMany for the rows it returned, then the response.
SystemListed(h) ==
    /\ h \in handlers /\ h.kind = "system" /\ h.pc = "listed"
    /\ handlers' = handlers \ {h}
    /\ IF h.res = "threw"
       THEN UNCHANGED <<dbNotifications, dbFailures>>
       ELSE \E ok \in DbOutcomes : SystemCreateMany(h.todo, ok)
    /\ UNCHANGED <<dbUser, dbParticipants, dbProject, dbTask, dbMessages, conn, rooms, msgs,
                   evts, nEvents, sends, joinLog, leaveAsked, typingLog, authVars>>

\* POST /conversations/:id/messages: the participant lookup is issued.
sendMessage(u, mentions) ==
    /\ nEvents < MaxEvents
    /\ CanSuspend
    /\ nEvents' = nEvents + 1
    /\ \E ok \in DbOutcomes :
         /\ handlers' = handlers \cup
              {[Handler("rest_send", 0, "checked", UserRoom(u), nEvents + 1,
                        IF ~ok THEN "threw"
                        ELSE IF FindParticipant(u, ConvId) THEN "found"
                        ELSE "null")
                  EXCEPT !.todo = mentions]}
         /\ CountFailure(ok)
    /\ UNCHANGED <<dbUser, dbParticipants, dbProject, dbTask, dbMessages, dbNotifications,
                   conn, rooms, msgs, evts, sends, joinLog, leaveAsked, typingLog, authVars>>

\* After the lookup: 403 or 500, or prisma.message.create.
sendMessageChecked(h) ==
    /\ h \in handlers /\ h.kind = "rest_send" /\ h.pc = "checked"
    /\ IF h.res # "found"
       THEN /\ handlers' = handlers \ {h}
            /\ UNCHANGED <<dbMessages, dbFailures>>
       ELSE \E ok \in DbOutcomes :
              LET id == Len(dbMessages) + 1
              IN /\ dbMessages' = IF ok
                                  THEN Append(dbMessages,
                                              [id |-> id, conversationId |-> ConvId,
                                               senderId |-> h.arg[2], content |-> 0])
                                  ELSE dbMessages
                 /\ handlers' = (handlers \ {h}) \cup
                      {[h EXCEPT !.pc = "created", !.mid = IF ok THEN id ELSE 0,
                                 !.res = IF ok THEN "ok" ELSE "threw"]}
                 /\ CountFailure(ok)
    /\ UNCHANGED <<dbUser, dbParticipants, dbProject, dbTask, dbNotifications, conn, rooms,
                   msgs, evts, nEvents, sends, joinLog, leaveAsked, typingLog, authVars>>

\* The mentioned users other than the sender.
Mentioned(h) == {h.todo[i] : i \in DOMAIN h.todo} \ {h.arg[2]}

\* After message.create: conversation.update, createMany for the mentioned
\* users, then the 201 response.
sendMessageCreated(h) ==
    /\ h \in handlers /\ h.kind = "rest_send" /\ h.pc = "created"
    /\ handlers' = handlers \ {h}
    /\ IF h.res = "threw"
       THEN UNCHANGED <<dbNotifications, dbFailures>>
       ELSE \E ok \in DbOutcomes :
              /\ dbNotifications' = IF ok
                                    THEN dbNotifications \cup
                                           {[userId |-> u, messageId |-> h.mid] :
                                              u \in Mentioned(h)}
                                    ELSE dbNotifications
              /\ CountFailure(ok)
    /\ UNCHANGED <<dbUser, dbParticipants, dbProject, dbTask, dbMessages, conn, rooms, msgs,
                   evts, nEvents, sends, joinLog, leaveAsked, typingLog, authVars>>

(***************************************************************************)
(* Specifications.  Spec: connections, presence and room membership.       *)
(* SpecMessaging: the conversation room, with clients that present valid   *)
(* credentials.                                                            *)
(***************************************************************************)
\* Users 1 and 2 are interchangeable in the conversation: the first
\* connection is user 1's.
ValidTokens(c) == {JwtSign("access", u, 0, 1) : u \in {v \in {1, 2} : v <= c}}

Next ==
    \/ \E c \in Conns, tok \in HandshakeTokens : Connect(c, tok)
    \/ \E c \in Conns : HandshakeLookup(c)
    \/ \E c \in Conns : HandshakeUpdate(c)
    \/ \E c \in Conns : Disconnect(c)
    \/ \E h \in handlers : DisconnectUpdated(h)
    \/ \E h \in handlers : DisconnectDeleted(h)
    \/ \E c \in Conns, r \in JoinableRooms : JoinRequest(c, r)
    \/ \E h \in handlers : JoinChecked(h)
    \/ \E u \in Users : leaveConversation(u)

Spec == Init /\ [][Next]_vars

NextMessaging ==
    \/ \E c \in Conns : \E tok \in ValidTokens(c) : Connect(c, tok)
    \/ \E c \in Conns : HandshakeLookup(c)
    \/ \E c \in Conns : HandshakeUpdate(c)
    \/ \E c \in Conns : Disconnect(c)
    \/ \E h \in handlers : DisconnectUpdated(h)
    \/ \E h \in handlers : DisconnectDeleted(h)
    \/ \E c \in Conns : JoinRequest(c, ConvRoom(ConvId))
    \/ \E h \in handlers : JoinChecked(h)
    \/ \E c \in Conns : LeaveRequest(c, ConvRoom(ConvId))
    \/ \E c \in Conns, kind \in {"typing_start", "typing_stop"} : Typing(c, kind)
    \/ \E u \in Users : leaveConversation(u)
    \/ \E c \in Conns : SendRequest(c)
    \/ \E h \in handlers : SendChecked(h)
    \/ \E h \in handlers : SendCreated(h)
    \/ \E h \in handlers : SendListed(h)
    \/ \E h \in handlers : SendNotified(h)

InitMessaging == Init /\ ~dbProject.isPublic

SpecMessaging == InitMessaging /\ [][NextMessaging]_vars

\* SpecTask: the task room.
NextTask ==
    \/ \E c \in Conns : \E tok \in ValidTokens(c) : Connect(c, tok)
    \/ \E c \in Conns : HandshakeLookup(c)
    \/ \E c \in Conns : HandshakeUpdate(c)
    \/ \E c \in Conns : Disconnect(c)
    \/ \E h \in handlers : DisconnectUpdated(h)
    \/ \E h \in handlers : DisconnectDeleted(h)
    \/ \E c \in Conns : JoinRequest(c, TaskRoom(TaskId))
    \/ \E h \in handlers : JoinChecked(h)
    \/ \E c \in Conns : TaskUpdate(c)
    \/ \E h \in handlers : TaskUpdateChecked(h)

\* The task unassigned, or assigned to user 2.
InitTask == \E assignee \in {NoUser, 2} : InitWith(assignee)

SpecTask == InitTask /\ [][NextTask]_vars

\* SpecPresence: connections and the presence columns.
NextPresence ==
    \/ \E c \in Conns : \E tok \in ValidTokens(c) : Connect(c, tok)
    \/ \E c \in Conns : HandshakeLookup(c)
    \/ \E c \in Conns : HandshakeUpdate(c)
    \/ \E c \in Conns : Disconnect(c)
    \/ \E h \in handlers : DisconnectUpdated(h)
    \/ \E h \in handlers : DisconnectDeleted(h)
    \/ \E c \in Conns, status \in PresenceStatuses : UpdatePresence(c, status)
    \/ \E h \in handlers : PresenceBroadcast(h)

SpecPresence == InitMessaging /\ [][NextPresence]_vars

\* SpecNotify: the REST handlers that write notification records, with
\* connected recipients.  The socket path (send_message) is in SpecMessaging.
NextNotify ==
    \/ \E c \in Conns : \E tok \in ValidTokens(c) : Connect(c, tok)
    \/ \E c \in Conns : HandshakeLookup(c)
    \/ \E c \in Conns : HandshakeUpdate(c)
    \/ \E c \in Conns : Disconnect(c)
    \/ \E h \in handlers : DisconnectUpdated(h)
    \/ \E h \in handlers : DisconnectDeleted(h)
    \/ \E admin \in BOOLEAN : \E ids \in TargetArrays :
         createSystemNotification(admin, FALSE, ids)
    \/ createSystemNotification(TRUE, TRUE, <<>>)
    \/ \E u \in {1, 2} : \E mentions \in MentionArrays : sendMessage(u, mentions)
    \/ \E h \in handlers : sendMessageChecked(h)
    \/ \E h \in handlers : sendMessageCreated(h)
    \/ \E h \in handlers : SystemListed(h)

SpecNotify == InitMessaging /\ [][NextNotify]_vars

\* The state of the private scenario once users 1 and 2 have each connected
\* and joined the conversation room, with no handler in flight.
InitJoined ==
    /\ now = 0
    /\ dbUser = [u \in Users |->
                   IF u \in Conns
                   THEN [exists |-> TRUE, isActive |-> TRUE, isOnline |-> TRUE,
                         seenBy |-> <<"handshake", u>>]
                   ELSE [exists |-> TRUE, isActive |-> (u # Inactive),
                         isOnline |-> FALSE, seenBy |-> <<"none", 0>>]]
    /\ dbParticipants = {1, 2}
    /\ dbProject = [ownerId |-> 1, isPublic |-> FALSE]
    /\ dbTask = [assignedToId |-> NoUser, createdById |-> 1, watchers |-> {2}]
    /\ dbMessages = <<>>
    /\ dbNotifications = {}
    /\ dbFailures = 0
    /\ conn = [c \in Conns |-> [status |-> "open", token |-> JwtSign("access", c, 0, 1),
                                userId |-> c, res |-> "none"]]
    /\ rooms = [c \in Conns |-> {UserRoom(c), ConvRoom(ConvId)}]
    /\ handlers = {}
    /\ msgs = [c \in Conns |-> <<>>]
    /\ evts = [c \in Conns |-> {Event(JoinedEvent(ConvRoom(ConvId)), "", ConvId, 0, 0)}]
    /\ nEvents = 0
    /\ sends = <<>>
    /\ joinLog = {[conn |-> c, room |-> ConvRoom(ConvId), status |-> TRUE,
                   answer |-> "joined"] : c \in Conns}
    /\ leaveAsked = [c \in Conns |-> {}]
    /\ typingLog = {}
    /\ refreshTokensStore = {}
    /\ pending = {}
    /\ revoked = {}
    /\ authLog = {}

\* SpecOrder: the messages of a conversation whose two participants are
\* both in the room.
NextOrder ==
    \/ \E c \in Conns : SendRequest(c)
    \/ \E h \in handlers : SendChecked(h)
    \/ \E h \in handlers : SendCreated(h)
    \/ \E h \in handlers : SendListed(h)
    \/ \E h \in handlers : SendNotified(h)
    \/ \E c \in Conns : Disconnect(c)
    \/ \E h \in handlers : DisconnectUpdated(h)
    \/ \E h \in handlers : DisconnectDeleted(h)

SpecOrder == InitJoined /\ [][NextOrder]_vars

(***************************************************************************)
(* The disconnect handler with the latency of its first write shown: the   *)
(* update is issued when the socket closes and applied by the database at  *)
(* some later point, before the handler resumes.  Disconnect is the        *)
(* schedule in which the database applies it at once.                      *)
(***************************************************************************)
DisconnectIssued(c) ==
    /\ Open(c)
    /\ CanSuspend
    /\ conn' = [conn EXCEPT ![c].status = "closed"]
    /\ rooms' = [rooms EXCEPT ![c] = {}]
    /\ handlers' = handlers \cup {Handler("disconnect", c, "issued", NoRoom, 0, "none")}
    /\ UNCHANGED <<dbUser, dbParticipants, dbProject, dbTask, dbMessages, dbNotifications,
                   dbFailures, msgs, evts, nEvents, sends, joinLog, leaveAsked, typingLog,
                   authVars>>

\* The database applies prisma.user.update({isOnline: false, lastSeen}).
DisconnectApplied(h) ==
    /\ h \in handlers /\ h.kind = "disconnect" /\ h.pc = "issued"
    /\ \E ok \in DbOutcomes :
         LET u == conn[h.conn].userId
         IN /\ dbUser' = PresenceUpdate(u, ok, FALSE, <<"disconnect", h.conn>>)
            /\ handlers' = (handlers \ {h}) \cup
                 {[h EXCEPT !.pc = "updated",
                            !.res = IF PresenceUpdated(u, ok) THEN "ok" ELSE "threw"]}
            /\ CountFailure(ok)
    /\ UNCHANGED <<dbParticipants, dbProject, dbTask, dbMessages, dbNotifications,
                   conn, rooms, msgs, evts, nEvents, sends, joinLog, leaveAsked, typingLog,
                   authVars>>

\* No other connection of the token's principal is in its handshake or open.
Alone(c, tok) ==
    \A d \in Conns \ {c} :
        conn[d].status \in {"new", "closed", "rejected"} \/ conn[d].token.userId # tok.userId

\* SpecReconnect: clients that hold one connection per principal at a time.
NextReconnect ==
    \/ \E c \in Conns : \E tok \in ValidTokens(c) : Alone(c, tok) /\ Connect(c, tok)
    \/ \E c \in Conns : HandshakeLookup(c)
    \/ \E c \in Conns : HandshakeUpdate(c)
    \/ \E c \in Conns : DisconnectIssued(c)
    \/ \E h \in handlers : DisconnectApplied(h)
    \/ \E h \in handlers : DisconnectUpdated(h)
    \/ \E h \in handlers : DisconnectDeleted(h)

SpecReconnect == InitMessaging /\ [][NextReconnect]_vars

\* The identity fields a client may put in a payload.
ClaimedIds == {1, 2}

\* SpecIdentity: two participants in the conversation room whose payloads
\* name any principal.
NextIdentity ==
    \/ \E c \in Conns, kind \in {"typing_start", "typing_stop"}, claimed \in ClaimedIds :
         TypingWith(c, kind, claimed)
    \/ \E c \in Conns, claimed \in ClaimedIds : SendRequestWith(c, claimed)
    \/ \E h \in handlers : SendChecked(h)
    \/ \E h \in handlers : SendCreated(h)
    \/ \E h \in handlers : SendListed(h)
    \/ \E h \in handlers : SendNotified(h)
    \/ \E c \in Conns, status \in PresenceStatuses, claimed \in ClaimedIds :
         UpdatePresenceWith(c, status, claimed)
    \/ \E h \in handlers : PresenceBroadcast(h)
    \/ \E c \in Conns : JoinRequest(c, TaskRoom(TaskId))
    \/ \E h \in handlers : JoinChecked(h)
    \/ \E c \in Conns, claimed \in ClaimedIds : TaskUpdateWith(c, claimed)
    \/ \E h \in handlers : TaskUpdateChecked(h)

SpecIdentity == InitJoined /\ [][NextIdentity]_vars

(***************************************************************************)
(* The token service and the REST authorization middleware (utils/auth.ts) *)
(***************************************************************************)
realTime == <<dbParticipants, dbProject, dbMessages, conn, rooms, handlers,
              msgs, evts, sends, joinLog, leaveAsked, typingLog>>

\* The users row a lookup returns, as the table holds it.
NoRow == [exists |-> FALSE, isActive |-> FALSE]
Row(id) == IF id \in Users /\ dbUser[id].exists
           THEN [exists |-> TRUE, isActive |-> dbUser[id].isActive]
           ELSE NoRow

\* History: whether the token was signed with the secret and its exp claim,
\* a number of seconds, lies after the clock.
Genuine(token, secret, t) == token.typ = secret /\ t < token.exp * TicksPerSec

AuthEntry(op, token, secret, row, res, access) ==
    [op |-> op, token |-> token, genuine |-> Genuine(token, secret, now), row |-> row,
     res |-> res, access |-> access, afterRevoke |-> token \in revoked]

Logged(e) == authLog' = authLog \cup {e}
CanCall == nEvents < MaxRequests /\ nEvents' = nEvents + 1
CanRequest == nEvents < MaxEvents /\ nEvents' = nEvents + 1
CanAwait == Cardinality(pending) < MaxInFlight

\* verifyToken(token, secret): the decoded payload, or null
verifyToken(token, secret, t) == JwtVerify(token, secret, t)

\* signRefreshToken: the token it returns, and the record it stores under it.
signRefreshToken(userId, t) == JwtSign("refresh", userId, t, REFRESH_TOKEN_EXPIRATION)

\* Mutant: delete refreshTokensStore[token] has no effect.
StoreDeleteNothing(store, token) == store

StoreDelete(store, token) == {e \in store : e.token # token}

StorePut(store, token, userId, t) ==
    StoreDelete(store, token) \cup
      {[token |-> token, userId |-> userId,
        expiresAt |-> t + REFRESH_TOKEN_EXPIRATION * TicksPerSec]}

\* Date.now() advances.
Tick ==
    /\ now < MaxNow
    /\ now' = now + 1
    /\ UNCHANGED <<dbUser, sockVars, refreshTokensStore, pending, revoked, authLog>>

\* POST /auth/login with the right password of user u.  The handler issues
\* both tokens in the step in which its last await resumes.
loginHandler(u) ==
    /\ CanCall
    /\ \E ok \in DbOutcomes :
         /\ CountFailure(ok)
         /\ IF ok /\ FindUser(u) = "active"
            THEN /\ refreshTokensStore' =
                      StorePut(refreshTokensStore, signRefreshToken(u, now), u, now)
                 /\ Logged(AuthEntry("login", signRefreshToken(u, now), "refresh", Row(u),
                                     "ok", signAccessToken(u, now)))
            ELSE UNCHANGED <<refreshTokensStore, authLog>>
    /\ UNCHANGED <<dbUser, dbTask, dbNotifications, realTime, now, pending, revoked>>

\* The refresh tokens signRefreshToken has returned so far.
Issued == {e.token : e \in {l \in authLog : l.op = "login"}}

\* POST /auth/refresh, up to its user lookup.
refreshTokenHandler(token) ==
    /\ CanCall
    /\ LET stored == {e \in refreshTokensStore : e.token = token}
       IN IF stored = {} \/ \E e \in stored : e.expiresAt < now
          THEN /\ refreshTokensStore' = StoreDelete(refreshTokensStore, token)
               /\ Logged(AuthEntry("refresh", token, "refresh", NoRow,
                                   "Invalid or expired refresh token", NoToken))
               /\ UNCHANGED <<pending, dbFailures>>
          ELSE IF \/ ~verifyToken(token, "refresh", now)
                  \/ \E e \in stored : e.userId # token.userId
          THEN /\ refreshTokensStore' = StoreDelete(refreshTokensStore, token)
               /\ Logged(AuthEntry("refresh", token, "refresh", NoRow,
                                   "Invalid refresh token", NoToken))
               /\ UNCHANGED <<pending, dbFailures>>
          ELSE /\ CanAwait
               /\ \E ok \in DbOutcomes :
                    /\ CountFailure(ok)
                    /\ pending' = pending \cup
                         {AuthEntry("refresh", token, "refresh", Row(token.userId),
                                    IF ~ok THEN "threw"
                                    ELSE IF FindUser(token.userId) = "null" THEN "null"
                                    ELSE "found", NoToken)}
               /\ UNCHANGED <<refreshTokensStore, authLog>>
    /\ UNCHANGED <<dbUser, dbTask, dbNotifications, realTime, now, revoked>>

\* Mutant: the refresh token is consumed by a successful refresh.
RefreshLookedRotating(p) ==
    /\ p.op = "refresh"
    /\ pending' = pending \ {p}
    /\ IF p.res = "threw"
       THEN /\ Logged([p EXCEPT !.res = "500"])
            /\ UNCHANGED refreshTokensStore
       ELSE IF p.res = "null"
       THEN /\ refreshTokensStore' = StoreDelete(refreshTokensStore, p.token)
            /\ Logged([p EXCEPT !.res = "User for refresh token not found"])
       ELSE /\ Logged([p EXCEPT !.res = "ok",
                                !.access = signAccessToken(p.token.userId, now)])
            /\ refreshTokensStore' = StoreDelete(refreshTokensStore, p.token)
    /\ UNCHANGED <<dbUser, sockVars, now, revoked>>

\* POST /auth/refresh, from the user lookup on.
RefreshLooked(p) ==
    /\ p.op = "refresh"
    /\ pending' = pending \ {p}
    /\ IF p.res = "threw"
       THEN /\ Logged([p EXCEPT !.res = "500"])
            /\ UNCHANGED refreshTokensStore
       ELSE IF p.res = "null"
       THEN /\ refreshTokensStore' = StoreDelete(refreshTokensStore, p.token)
            /\ Logged([p EXCEPT !.res = "User for refresh token not found"])
       ELSE /\ Logged([p EXCEPT !.res = "ok",
                                !.access = signAccessToken(p.token.userId, now)])
            /\ UNCHANGED refreshTokensStore
    /\ UNCHANGED <<dbUser, sockVars, now, revoked>>

\* Mutant: logout empties the registry.
logoutHandlerAll(token) ==
    /\ CanCall
    /\ refreshTokensStore' = {}
    /\ revoked' = revoked \cup {token}
    /\ Logged(AuthEntry("logout", token, "refresh", NoRow, "200", NoToken))
    /\ UNCHANGED <<dbUser, dbTask, dbNotifications, dbFailures, realTime, now, pending>>

\* POST /auth/logout
logoutHandler(token) ==
    /\ CanCall
    /\ refreshTokensStore' = StoreDelete(refreshTokensStore, token)
    /\ revoked' = revoked \cup {token}
    /\ Logged(AuthEntry("logout", token, "refresh", NoRow, "200", NoToken))
    /\ UNCHANGED <<dbUser, dbTask, dbNotifications, dbFailures, realTime, now, pending>>

\* Mutant: the sweep also deletes the entries that expire at this instant.
SweptInclusive(store, t) == {e \in store : e.expiresAt > t}

\* What the loop of the callback leaves in the registry.
Swept(store, t) == {e \in store : ~(e.expiresAt < t)}

\* The hourly setInterval callback.
sweep ==
    /\ refreshTokensStore' = Swept(refreshTokensStore, now)
    /\ UNCHANGED <<dbUser, sockVars, now, pending, revoked, authLog>>

\* DELETE /users/:id: task.deleteMany, then user.delete, which the foreign
\* keys of projects, task_watchers and conversation_participants restrict
\* and the one of notifications cascades.
NoTask == [assignedToId |-> NoUser, createdById |-> NoUser, watchers |-> {}]
TasksLeft(u) == IF dbTask.assignedToId = u \/ dbTask.createdById = u THEN NoTask ELSE dbTask
Restricted(u) ==
    \/ dbProject.ownerId = u
    \/ u \in dbParticipants
    \/ u \in TasksLeft(u).watchers

deleteUser(u) ==
    /\ CanRequest
    /\ dbUser[u].exists
    /\ dbTask' = TasksLeft(u)
    /\ IF Restricted(u)
       THEN UNCHANGED <<dbUser, dbNotifications>>
       ELSE /\ dbUser' = [dbUser EXCEPT ![u].exists = FALSE]
            /\ dbNotifications' = {n \in dbNotifications : n.userId # u}
    /\ UNCHANGED <<dbFailures, realTime, authVars>>

\* The bearer tokens a client may present: those of the handshake, and a
\* refresh token in place of an access token.
BearerTokens ==
    HandshakeTokens \cup {JwtSign("refresh", 1, 0, REFRESH_TOKEN_EXPIRATION)}

\* A protected request through authenticateToken, up to its user lookup.
\* The lookup is outside any try block: when it throws, no response is sent.
authenticateToken(token) ==
    /\ CanRequest
    /\ IF token = NoToken
       THEN /\ Logged(AuthEntry("authenticateToken", token, "access", NoRow, "401", NoToken))
            /\ UNCHANGED <<pending, dbFailures>>
       ELSE IF ~verifyToken(token, "access", now)
       THEN /\ Logged(AuthEntry("authenticateToken", token, "access", NoRow, "403", NoToken))
            /\ UNCHANGED <<pending, dbFailures>>
       ELSE /\ CanAwait
            /\ \E ok \in DbOutcomes :
                 /\ CountFailure(ok)
                 /\ pending' = pending \cup
                      {AuthEntry("authenticateToken", token, "access", Row(token.userId),
                                 IF ~ok THEN "hung"
                                 ELSE IF FindUser(token.userId) = "active" THEN "next"
                                 ELSE "403", NoToken)}
            /\ UNCHANGED authLog
    /\ UNCHANGED <<dbUser, dbTask, dbNotifications, realTime, now,
                   refreshTokensStore, revoked>>

\* authenticateToken, from the user lookup on: the response, or next().
AuthenticateLooked(p) ==
    /\ p.op = "authenticateToken"
    /\ pending' = pending \ {p}
    /\ Logged(p)
    /\ UNCHANGED <<dbUser, sockVars, now, refreshTokensStore, revoked>>

\* A protected request through requireAuth: passport-jwt extracts and
\* verifies the bearer token, then calls the strategy's verify callback.
requireAuth(token) ==
    /\ CanRequest
    /\ IF token = NoToken \/ ~JwtVerify(token, "access", now)
       THEN /\ Logged(AuthEntry("requireAuth", token, "access", NoRow, "401", NoToken))
            /\ UNCHANGED <<pending, dbFailures>>
       ELSE /\ CanAwait
            /\ \E ok \in DbOutcomes :
                 /\ CountFailure(ok)
                 /\ pending' = pending \cup
                      {AuthEntry("requireAuth", token, "access", Row(token.userId),
                                 IF ~ok THEN "500"
                                 ELSE IF FindUser(token.userId) = "active" THEN "next"
                                 ELSE "401", NoToken)}
            /\ UNCHANGED authLog
    /\ UNCHANGED <<dbUser, dbTask, dbNotifications, realTime, now,
                   refreshTokensStore, revoked>>

\* The verify callback's done(...): the response, or next().
JwtStrategyDone(p) ==
    /\ p.op = "requireAuth"
    /\ pending' = pending \ {p}
    /\ Logged(p)
    /\ UNCHANGED <<dbUser, sockVars, now, refreshTokensStore, revoked>>

\* SpecAuth: the token service.
NextAuth ==
    \/ Tick
    \/ \E u \in Users : loginHandler(u)
    \/ \E token \in Issued \cup {Garbage} : refreshTokenHandler(token)
    \/ \E p \in pending : RefreshLooked(p)
    \/ \E token \in Issued \cup {Garbage} : logoutHandler(token)
    \/ sweep
    \/ \E u \in Users : deleteUser(u)
    \/ \E u \in Users : leaveConversation(u)

InitAuth == Init /\ dbProject.isPublic

SpecAuth == InitAuth /\ [][NextAuth]_vars

\* The values of ACCESS_TOKEN_EXPIRATION tried: "0s", "1s", "2s", "1m",
\* "0S", "5x" and a string with no numeral.
DurationStrings ==
    {Duration(0, "s"), Seconds(1), Seconds(2), Duration(1, "m"), Duration(0, "S"),
     Duration(5, "x"), NotANumber("c")}

\* signAccessToken(userId) under the configuration `raw`, then
\* verifyToken(token, ACCESS_TOKEN_SECRET) with no time in between.
signThenVerify(raw, userId) ==
    /\ CanRequest
    /\ LET token == signAccessTokenWith(raw, userId, now)
           decoded == verifyToken(token, "access", now)
       IN Logged([op |-> "signAccessToken", token |-> token,
                  genuine |-> Genuine(token, "access", now), row |-> NoRow,
                  res |-> IF decoded THEN "decoded" ELSE "null", access |-> token,
                  afterRevoke |-> FALSE, raw |-> raw, userId |-> userId,
                  principal |-> IF decoded THEN token.userId ELSE NoUser])
    /\ UNCHANGED <<dbUser, dbTask, dbNotifications, dbFailures, realTime, now,
                   refreshTokensStore, pending, revoked>>

\* SpecToken: access tokens under every configuration, next to a registry
\* that logins fill.
NextToken ==
    \/ Tick
    \/ \E u \in {1, 2} : loginHandler(u)
    \/ \E raw \in DurationStrings : \E u \in {1, 2} : signThenVerify(raw, u)

SpecToken == InitAuth /\ [][NextToken]_vars

\* SpecGuard: protected requests.
NextGuard ==
    \/ Tick
    \/ \E token \in BearerTokens : authenticateToken(token)
    \/ \E p \in pending : AuthenticateLooked(p)
    \/ \E token \in BearerTokens : requireAuth(token)
    \/ \E p \in pending : JwtStrategyDone(p)
    \/ \E u \in Users : deleteUser(u)
    \/ \E u \in Users : leaveConversation(u)

SpecGuard == InitAuth /\ [][NextGuard]_vars

(***************************************************************************)
(* Claims about the real-time layer                                        *)
(***************************************************************************)
Joined(c, r) == \E j \in joinLog : j.conn = c /\ j.room = r /\ j.answer = "joined"
JoinedWithStatus(c, r) ==
    \E j \in joinLog : j.conn = c /\ j.room = r /\ j.answer = "joined" /\ j.status

\* C1 as stated: a connection is a member of a room only through a join at
\* which its principal was participant / owner / assignee-creator-watcher
\* (or, for its personal room, through the connection handler).
C1_AsStated ==
    \A c \in Conns : \A r \in rooms[c] :
        r = UserRoom(conn[c].userId) \/ JoinedWithStatus(c, r)

\* C1 (amended): a connection is a member of a conversation, project or task
\* room only through an explicit join at whose check its principal was a
\* participant of the conversation, the owner of the project or the project
\* was public, or the assignee, creator or watcher of the task; the only
\* other membership is its own personal room.
C1_JoinAuthorized ==
    \A c \in Conns : \A r \in rooms[c] :
        \/ r = UserRoom(conn[c].userId)
        \/ JoinedWithStatus(c, r)
        \/ r = ProjectRoom(ProjectId) /\ dbProject.isPublic /\ Joined(c, r)

C1_Witness ==
    /\ \E c \in Conns : \E r \in JoinableRooms : r \in rooms[c]
    /\ \E j \in joinLog : j.answer = "silent" /\ ~j.status

\* C6: a connection is past the handshake only with a verified credential of
\* an existing, active principal, and is then in that principal's personal
\* room; a rejected handshake has joined no room, received nothing, runs no
\* handler and has written no presence.
C6_HandshakeGate ==
    \A c \in Conns :
      /\ conn[c].status \in {"lookup", "update", "open", "closed"} =>
            JwtVerify(conn[c].token, "access", now)
      /\ conn[c].status \in {"update", "open", "closed"} =>
            /\ conn[c].userId = conn[c].token.userId
            /\ conn[c].userId \in Users
            /\ dbUser[conn[c].userId].exists /\ dbUser[conn[c].userId].isActive
      /\ Open(c) => UserRoom(conn[c].userId) \in rooms[c]
      /\ conn[c].status \in {"new", "lookup", "update", "rejected"} =>
            /\ rooms[c] = {} /\ evts[c] = {} /\ msgs[c] = <<>>
            /\ \A h \in handlers : h.conn # c
      /\ \A u \in Users :
            dbUser[u].seenBy = <<"handshake", c>> =>
                conn[c].status \in {"update", "open", "closed"} /\ conn[c].userId = u

C6_Witness ==
    /\ \E c \in Conns : Open(c) /\ dbUser[conn[c].userId].isOnline
                          /\ dbUser[conn[c].userId].seenBy = <<"handshake", c>>
    /\ \E c \in Conns : conn[c].status = "rejected" /\ conn[c].res = "Invalid user"

\* C9 as stated: a join whose check finds no access is answered by an error
\* event (here: no join request is left without an answer).
C9_AsStated == \A j \in joinLog : j.answer # "silent"

\* C10 as stated: after a leave request the connection is not a member of
\* that room (until it joins again).
C10_AsStated == \A c \in Conns : \A r \in leaveAsked[c] : r \notin rooms[c]

\* C8 as stated: a typing event or a send of a connection that has not
\* joined the conversation room reaches no other connection.
C8_AsStated ==
    /\ \A t \in typingLog : ~t.member => t.reached = {}
    /\ \A i \in DOMAIN sends : ~sends[i].joined => sends[i].members = {}

Count(m, q) == Cardinality({k \in DOMAIN q : q[k] = m})
Broadcasted(i) == sends[i].status \in {"broadcast", "done", "notifyFailed"}
Aborted(i) == sends[i].status \in {"denied", "failed"}
Completed(i) == sends[i].status \in {"denied", "failed", "done", "notifyFailed"}

\* C2: for every send that was broadcast, each connection that was a
\* connected member of the conversation room at the broadcast has received
\* its new_message exactly once, the sender's connections included, and no
\* connection has received it twice.
C2_FanOut ==
    \A i \in DOMAIN sends :
        Broadcasted(i) =>
            \A c \in Conns :
                /\ c \in sends[i].members => Count(sends[i].mid, msgs[c]) = 1
                /\ Count(sends[i].mid, msgs[c]) <= 1

C2_Witness ==
    \E i \in DOMAIN sends :
        /\ Broadcasted(i)
        /\ sends[i].conn \in sends[i].members
        /\ sends[i].members = Conns

Notified(p, m) == [userId |-> p, messageId |-> m] \in dbNotifications

SendOf(m) == dbMessages[m].content
ErrorOf(i) == IF sends[i].status = "denied" THEN NotAuthorized ELSE SendFailed

C5_State ==
    /\ \A c \in Conns : \A k \in DOMAIN msgs[c] :
          LET m == msgs[c][k]
          IN /\ m \in DOMAIN dbMessages
             /\ sends[SendOf(m)].participant
             /\ Broadcasted(SendOf(m))
             /\ sends[SendOf(m)].mid = m
    /\ \A i \in DOMAIN sends :
          ~sends[i].participant =>
              /\ sends[i].status \in {"checking", "denied", "failed"}
              /\ \A m \in DOMAIN dbMessages : SendOf(m) # i
    /\ \A i \in DOMAIN sends :
          Aborted(i) =>
              /\ \A c \in Conns : \A k \in DOMAIN msgs[c] : SendOf(msgs[c][k]) # i
              /\ \A d \in Conns \ {sends[i].conn} :
                    \A e \in evts[d] : ~(e.ev = "error" /\ e.seq = i)
              /\ Open(sends[i].conn) =>
                    Event("error", ErrorOf(i), 0, 0, i) \in evts[sends[i].conn]

C5_Step ==
    \A i \in DOMAIN sends :
        ~Aborted(i) /\ sends'[i].status \in {"denied", "failed"} =>
            conn'[sends[i].conn] = conn[sends[i].conn]

\* C5: a new_message is only ever broadcast for a persisted message whose
\* sender was a participant at the check; a send that fails the check or
\* whose lookup or message.create throws broadcasts nothing, emits its error
\* event to the sending connection alone, and the step that aborts it leaves
\* that connection as it was.
C5_AbortedSend == []C5_State /\ [][C5_Step]_vars

C5_Witness ==
    \E i \in DOMAIN sends :
        /\ sends[i].status = "denied"
        /\ Open(sends[i].conn)
        /\ RoomSockets(ConvRoom(ConvId)) \ {sends[i].conn} # {}

(***************************************************************************)
(* Claims about the token service and the authorization middleware         *)
(***************************************************************************)
\* C3 as stated, its revocation half: once revoke(t) has been performed,
\* every later refresh(t) fails and returns no access token.
C3_AsStated ==
    \A e \in authLog :
        e.op = "refresh" /\ e.afterRevoke => e.res # "ok" /\ e.access = NoToken

Middleware == {"authenticateToken", "requireAuth"}

Sole(c) == \A d \in Conns \ {c} : conn[d].userId # conn[c].userId
Closes(c) == Open(c) /\ conn'[c].status = "closed"
\* The handler h returns in this step.
Ends(h) == h \notin handlers' /\ ~\E g \in handlers' : g.kind = h.kind /\ g.conn = h.conn
WrittenOffline(c) ==
    /\ ~dbUser'[conn[c].userId].isOnline
    /\ dbUser'[conn[c].userId].seenBy = <<"disconnect", c>>
OfflineEvent(c) == Event("user_presence_updated", "offline", 0, conn[c].userId, 0)

C11_StepAsStated ==
    /\ \A c \in Conns : Closes(c) /\ Sole(c) => WrittenOffline(c)
    /\ \A h \in handlers :
          h.kind = "disconnect" /\ Sole(h.conn) /\ Ends(h) =>
              \A d \in Conns \ {h.conn} : Open(d) => OfflineEvent(h.conn) \in evts'[d]

C11_Step ==
    /\ \A c \in Conns :
          Closes(c) /\ Sole(c) =>
              /\ rooms'[c] = {}
              /\ \E h \in handlers' \ handlers :
                    /\ h.kind = "disconnect" /\ h.conn = c
                    /\ h.res = "ok" => WrittenOffline(c)
                    /\ h.res = "threw" => dbUser' = dbUser
    /\ \A h \in handlers :
          h.kind = "disconnect" /\ Sole(h.conn) /\ Ends(h) =>
              evts' = IF h.pc = "deleted" /\ h.res = "ok"
                      THEN [d \in Conns |->
                              IF Open(d) /\ d # h.conn
                              THEN evts[d] \cup {OfflineEvent(h.conn)} ELSE evts[d]]
                      ELSE evts

Stored(token) == \E e \in refreshTokensStore : e.token = token

C12_Step ==
    /\ \A p \in pending' \ pending :
          p.op = "refresh" => refreshTokensStore' = refreshTokensStore
    /\ \A p \in pending \ pending' :
          p.op = "refresh" /\ p.res = "found" =>
              /\ refreshTokensStore' = refreshTokensStore
              /\ Issued' = Issued
              /\ \E e \in authLog' :
                    /\ e.op = "refresh" /\ e.token = p.token /\ e.res = "ok"
                    /\ e.access.typ = "access"
                    /\ e.access.userId = p.token.userId
                    /\ Genuine(e.access, "access", now)

StoredNext(token) == \E e \in refreshTokensStore' : e.token = token
Refused == {"Invalid or expired refresh token", "Invalid refresh token",
            "User for refresh token not found"}
\* A refresh answered in this step.
Answered(e) == e \in authLog' \ authLog /\ e.op = "refresh"

C13_Step ==
    /\ \A e \in authLog' :
          Answered(e) /\ e.res \in Refused =>
              /\ ~StoredNext(e.token)
              /\ refreshTokensStore' = {x \in refreshTokensStore : x.token # e.token}
    /\ \A e \in authLog' :
          Answered(e) /\ pending' = pending =>
              /\ ~Stored(e.token) =>
                    /\ e.res = "Invalid or expired refresh token"
                    /\ refreshTokensStore' = refreshTokensStore
              /\ (\E x \in refreshTokensStore : x.token = e.token /\ x.expiresAt < now) =>
                    e.res = "Invalid or expired refresh token"
              /\ Stored(e.token) => e.res \in Refused
    /\ \A p \in pending \ pending' :
          p.op = "refresh" =>
              /\ p.res = "null" => ~StoredNext(p.token)
              /\ p.res = "threw" => refreshTokensStore' = refreshTokensStore

C14_Step ==
    \A e \in authLog' \ authLog :
        e.op = "logout" =>
            /\ refreshTokensStore' = {x \in refreshTokensStore : x.token # e.token}
            /\ ~Stored(e.token) => refreshTokensStore' = refreshTokensStore

\* C14: logout(t) removes t's registry entry and no other; when t is absent
\* (never stored, or already revoked) it leaves the registry unchanged; and
\* it always answers 200.
C14_Revoke ==
    /\ [](\A e \in authLog : e.op = "logout" => e.res = "200")
    /\ [][C14_Step]_vars

\* t was revoked twice, and another token's entry is still in the registry.
C14_Witness ==
    \E e1, e2 \in authLog :
        /\ e1.op = "logout" /\ e2.op = "logout"
        /\ e1.token = e2.token /\ e1.token \in Issued
        /\ ~e1.afterRevoke /\ e2.afterRevoke
        /\ \E x \in refreshTokensStore : x.token # e1.token

\* Only the sweep changes the registry without a REST call being made or
\* answered.
SweepStep ==
    /\ refreshTokensStore' # refreshTokensStore
    /\ nEvents' = nEvents /\ pending' = pending

C15_State ==
    /\ Swept(Swept(refreshTokensStore, now), now) = Swept(refreshTokensStore, now)
    /\ Swept(refreshTokensStore, now) \subseteq refreshTokensStore
    /\ \A e \in refreshTokensStore :
          IF e \in Swept(refreshTokensStore, now)
          THEN now <= e.expiresAt
          ELSE now > e.expiresAt /\ ~verifyToken(e.token, "refresh", now)

C15_Step ==
    SweepStep =>
        /\ refreshTokensStore' = {e \in refreshTokensStore : now <= e.expiresAt}
        /\ Swept(refreshTokensStore', now') = refreshTokensStore'
        /\ UNCHANGED <<authLog, revoked, dbUser>>

\* C15: the sweep removes exactly the registry entries whose expiresAt lies
\* before the clock and leaves every other entry as it was; an entry it
\* removes is one that refresh refuses (its registry expiry and its signed
\* expiry have both passed); and a second sweep at the same instant removes
\* nothing.
C15_Sweep == []C15_State /\ [][C15_Step]_vars

\* An issued token that only the sweep can have removed, beside one it kept.
C15_Witness ==
    \E t \in Issued :
        /\ ~Stored(t)
        /\ t \notin revoked
        /\ \A e \in authLog : e.op = "refresh" => e.token # t
        /\ \E x \in refreshTokensStore : x.token # t

(***************************************************************************)
(* Claims about task updates                                               *)
(***************************************************************************)
MayEdit(u) == u # NoUser /\ (dbTask.assignedToId = u \/ dbTask.createdById = u)

C16_State ==
    \A c \in Conns : \A e \in evts[c] : e.ev = "task_updated" => MayEdit(e.by)

C16_Step ==
    /\ \A h \in handlers' \ handlers :
          h.kind = "task_update" =>
              UNCHANGED <<dbUser, dbParticipants, dbProject, dbTask, dbMessages,
                          dbNotifications, evts>>
    /\ \A h \in handlers \ handlers' :
          h.kind = "task_update" =>
              /\ UNCHANGED <<dbUser, dbParticipants, dbProject, dbTask, dbMessages,
                             dbNotifications>>
              /\ IF MayEdit(conn[h.conn].userId) /\ h.res # "threw"
                 THEN evts' = [c \in Conns |->
                                 IF Open(c) /\ TaskRoom(TaskId) \in rooms[c]
                                 THEN evts[c] \cup {TaskUpdated(conn[h.conn].userId)}
                                 ELSE evts[c]]
                 ELSE IF h.res = "threw"
                 THEN \A c \in Conns \ {h.conn} : evts'[c] = evts[c]
                 ELSE evts' = evts

\* C16: every task_updated event a client has received names an assignee or
\* the creator of the task as its author; a task_update of any other
\* principal, a watcher in the task room included, reaches no connection;
\* one of the assignee or creator goes to the connected members of the task
\* room; and no step of the handler writes to persistence.
C16_TaskUpdate == []C16_State /\ [][C16_Step]_vars

\* The creator's update has reached a watcher or assignee in the task room,
\* and a task_update of a watcher in the room is being refused.
C16_Witness ==
    /\ \E c \in Conns :
          /\ conn[c].userId # dbTask.createdById
          /\ TaskUpdated(dbTask.createdById) \in evts[c]
    /\ \E h \in handlers :
          /\ h.kind = "task_update" /\ h.res = "null"
          /\ conn[h.conn].userId \in dbTask.watchers
          /\ TaskRoom(TaskId) \in rooms[h.conn]

\* ---------------------------------------------------------------------
Owed(n, H) ==
    \E h \in H : /\ h.kind = "send" /\ h.pc = "notified" /\ h.res = "ok"
                 /\ h.todo # <<>> /\ Head(h.todo) = n.userId /\ h.mid = n.messageId

Pushed(c, n) ==
    \E e \in evts'[c] : e.ev = "notification" /\ e.id = n.messageId /\ e.by = n.userId

C17_StepAsStated ==
    /\ \A n \in dbNotifications' \ dbNotifications :
         \/ Owed(n, handlers')
         \/ \A c \in RoomSockets(UserRoom(n.userId)) : Pushed(c, n)
    /\ \A h \in handlers \ handlers' :
         h.kind = "send" /\ h.pc = "notified" /\ h.res = "ok" =>
           \A c \in RoomSockets(UserRoom(Head(h.todo))) :
             Pushed(c, [userId |-> Head(h.todo), messageId |-> h.mid])

\* C17 as stated: every step that writes a notification record either
\* pushes a notification event to each connection in the recipient's
\* personal room or leaves the writing handler in flight about to do so,
\* and a handler resuming after its write does push it.
C17_AsStated == [][C17_StepAsStated]_vars

\* ---------------------------------------------------------------------
Guards == {"authenticateToken", "requireAuth"}

\* C18 as stated: under one guard, the answer to a request with no
\* credential differs from the answer to a request whose credential is
\* present but forged, of the wrong kind or expired.
C18_AsStated ==
    \A e, f \in authLog :
        /\ e.op \in Guards /\ e.op = f.op
        /\ e.token = NoToken
        /\ f.token # NoToken /\ ~f.genuine
        => e.res # f.res

\* ---------------------------------------------------------------------
\* The configured duration is not zero: it names at least one unit of
\* time, or it does not parse and the default applies.
NonZero(raw) == raw.nan \/ raw.value > 0 \/ raw.unit \notin {"s", "m", "h", "d", "S", "M", "H", "D"}

RoundTrips == {e \in authLog : e.op = "signAccessToken"}

C19_State == \A e \in RoundTrips : NonZero(e.raw) => e.res = "decoded" /\ e.principal = e.userId

C19_Step ==
    (\E e \in authLog' \ authLog : e.op = "signAccessToken") =>
        refreshTokensStore' = refreshTokensStore

PresenceQuiet ==
    /\ \A c \in Conns : conn[c].status \notin {"lookup", "update"}
    /\ \A h \in handlers : h.kind \notin {"disconnect", "update_presence"}

Live(u) == \E c \in Conns : Open(c) /\ conn[c].userId = u

\* C20 as stated: with no presence handler in flight, a principal's online
\* flag is true exactly when the principal has an open connection.
C20_AsStated ==
    PresenceQuiet => \A u \in Users : dbUser[u].exists => (dbUser[u].isOnline <=> Live(u))

\* ---------------------------------------------------------------------
C21_StepAsStated ==
    \A e \in authLog' \ authLog :
        e.op = "refresh" /\ e.res = "ok" => Stored(e.token) /\ StoredNext(e.token)

\* C21 as stated: a refresh(t) answers with an access token only in a step
\* in which t is in the registry.
C21_AsStated == [][C21_StepAsStated]_vars

\* ---------------------------------------------------------------------
\* The send i is past its broadcast, or has been aborted.
Settled(i) == sends[i].status # "checking"

\* A send_message event arrives: every earlier send of the same connection
\* is settled.
C22_Step ==
    Len(sends') > Len(sends) =>
        \A i \in DOMAIN sends :
            sends[i].conn = sends'[Len(sends')].conn => Settled(i)

\* Every connection sees the messages of one sending connection in the
\* order that connection emitted them.
C22_Order ==
    \A c \in Conns : \A k1, k2 \in DOMAIN msgs[c] :
        /\ sends[SendOf(msgs[c][k1])].conn = sends[SendOf(msgs[c][k2])].conn
        /\ SendOf(msgs[c][k1]) < SendOf(msgs[c][k2])
        => k1 < k2

\* C22 as stated: the check of a send starts only after every earlier send
\* of the same connection has been broadcast or aborted, and recipients see
\* one connection's messages in emission order.
C22_AsStated == []C22_Order /\ [][C22_Step]_vars

\* ---------------------------------------------------------------------
\* The handler h resumes after its message.create resolved.
WriteCompletes(h) ==
    /\ h \in handlers /\ h.kind = "send" /\ h.pc = "created" /\ h.res = "ok"
    /\ h \notin handlers'

\* Two connections agree on the relative order of the messages both received.
C23_State ==
    \A c, d \in Conns : \A k1, k2 \in DOMAIN msgs[c] : \A l1, l2 \in DOMAIN msgs[d] :
        msgs[c][k1] = msgs[d][l1] /\ msgs[c][k2] = msgs[d][l2] /\ k1 < k2 => l1 < l2

C23_Step ==
    /\ \A h \in handlers :
          WriteCompletes(h) =>
              \A c \in Conns :
                  msgs'[c] = IF Open(c) /\ h.arg \in rooms[c]
                             THEN Append(msgs[c], h.mid) ELSE msgs[c]
    /\ \A c \in Conns :
          msgs'[c] # msgs[c] => \E h \in handlers : WriteCompletes(h)

\* C23: a new_message event is queued for the members of the room, behind
\* everything they have already received, in the very step in which the
\* handler resumes from its persistence write, and in no other step; any
\* two connections that received the same two messages received them in
\* the same order.
C23_CompletionOrder == []C23_State /\ [][C23_Step]_vars

\* Both connections received two messages, the later send first.
C23_Witness ==
    /\ Len(msgs[1]) = 2 /\ msgs[2] = msgs[1]
    /\ SendOf(msgs[1][1]) > SendOf(msgs[1][2])

\* ---------------------------------------------------------------------
Closed(c) == conn[c].status = "closed"

C24_Rooms == \A c \in Conns : Closed(c) => rooms[c] = {}

C24_Delivery ==
    \A c \in Conns : Closed(c) => evts'[c] = evts[c] /\ msgs'[c] = msgs[c] /\ Closed(c)'

C25_AsStated ==
    \A c, d \in Conns :
        /\ Closed(c) /\ Open(d) /\ conn[c].userId = conn[d].userId
        /\ handlers = {}
        => dbUser[conn[d].userId].isOnline

\* ---------------------------------------------------------------------
C26_StepAsStated ==
    \A c \in Conns : msgs'[c] # msgs[c] => conn[c].userId \in dbParticipants

\* C26 as stated: a new_message event is queued only for connections whose
\* principal is a participant of the conversation at that moment.
C26_AsStated == [][C26_StepAsStated]_vars

\* ---------------------------------------------------------------------
\* The sender of the send i has received an error event for it.
ErrorSent(i) ==
    \E e \in evts[sends[i].conn] :
        e.ev = "error" /\ e.seq = i /\ e.msg \in {SendFailed, NotAuthorized}

\* C27 as stated: a send whose sender received an error event has broadcast
\* no new_message and persisted no message record.
C27_AsStated ==
    \A i \in DOMAIN sends :
        ErrorSent(i) =>
            /\ ~Broadcasted(i)
            /\ \A m \in DOMAIN dbMessages : SendOf(m) # i
            /\ \A c \in Conns : \A k \in DOMAIN msgs[c] : SendOf(msgs[c][k]) # i

\* ---------------------------------------------------------------------
\* C28: a connection is in the personal room of no principal but its own,
\* and every notification event it has received was pushed for its own
\* principal.
C28_PersonalRoom ==
    /\ \A c \in Conns : \A u \in Users \cup {NoUser} :
          UserRoom(u) \in rooms[c] => conn[c].userId = u
    /\ \A c \in Conns : \A e \in evts[c] :
          e.ev = "notification" => e.by = conn[c].userId

\* A notification reached its recipient's connection and not the open
\* connection of the sender.
C28_Witness ==
    \E c, d \in Conns : \E e \in evts[c] :
        /\ e.ev = "notification" /\ e.by = conn[c].userId
        /\ Open(d) /\ conn[d].userId # conn[c].userId
        /\ ConvRoom(ConvId) \in rooms[c] /\ ConvRoom(ConvId) \in rooms[d]
        /\ e \notin evts[d]

\* ---------------------------------------------------------------------
IdentityEvents == {"user_typing", "user_stopped_typing", "user_presence_updated",
                   "task_updated"}

\* The connections whose handler emits in this step: a typing event is
\* logged for them, or one of their handlers returns.
Emitting ==
    {t.conn : t \in typingLog' \ typingLog} \cup {h.conn : h \in handlers \ handlers'}

C29_State ==
    \A m \in DOMAIN dbMessages :
        dbMessages[m].senderId = conn[sends[SendOf(m)].conn].userId

C29_Step ==
    \A d \in Conns : \A e \in evts'[d] \ evts[d] :
        e.ev \in IdentityEvents => \E c \in Emitting : e.by = conn[c].userId

\* C29: every persisted message names as sender the principal of the
\* connection that sent it, and every typing, presence and task event
\* names the principal of the connection whose handler emitted it,
\* whatever identity the payload claims.
C29_Identity == []C29_State /\ [][C29_Step]_vars

\* A message has just been persisted for a payload that names someone else.
C29_Witness ==
    \E h \in handlers :
        /\ h.kind = "send" /\ h.pc = "created" /\ h.res = "ok"
        /\ h.claimed \notin {NoUser, conn[h.conn].userId}
        /\ dbMessages[h.mid].senderId = conn[h.conn].userId

\* A step of loginHandler(u) that reaches signRefreshToken.
LoginIssues(u) ==
    /\ FindUser(u) = "active"
    /\ loginHandler(u)
    /\ UNCHANGED dbFailures

\* C30 as stated: every login that issues tokens creates a registry entry of
\* its own, so the refresh token it returns was not in the registry before
\* and the registry has one entry more after it.
C30_StepAsStated ==
    \A u \in Users :
        LoginIssues(u) =>
            /\ ~Stored(signRefreshToken(u, now))
            /\ Cardinality(refreshTokensStore') = Cardinality(refreshTokensStore) + 1

C30_AsStated == [][C30_StepAsStated]_vars

====
